---------------------------- MODULE Spec2Model ----------------------------
(***************************************************************************)
(* French cardinal normalisation (normalize_french_fst.py).                *)
(*                                                                         *)
(* Strings are sequences of one-character strings, so that concatenation,  *)
(* substring search and the regular expressions of the tokenizer act on    *)
(* characters as they do in the program.  A transducer (pynini Fst) is the *)
(* relation it denotes: a set of <<input, output>> pairs; pynini.union is  *)
(* set union and composition with an acceptor selects the pairs of one     *)
(* input.                                                                  *)
(***************************************************************************)
EXTENDS Integers, Sequences, FiniteSets, TLC

VARIABLES fst, stats, op, arg, ret, ncalls

vars == <<fst, stats, op, arg, ret, ncalls>>

(***************************************************************************)
(* Bounds of the model.                                                    *)
(***************************************************************************)
\* normalize_number calls in one behaviour of Spec
MaxCalls == 3
\* Spec calls normalize_number on the numerals 1000-Spread .. 1000+Spread
Spread == 2
\* longest non-canonical argument string of SpecNumber
MaxArgLen == 4
\* longest text of SpecText
MaxTextLen == 4
\* longest text of Spec
MaxCallTextLen == 1

(***************************************************************************)
(* Characters and Python's str / int conversions.                          *)
(***************************************************************************)
Digits == <<"0", "1", "2", "3", "4", "5", "6", "7", "8", "9">>

IsDigit(c) == \E d \in 1..10 : Digits[d] = c

DigitVal(c) == (CHOOSE d \in 1..10 : Digits[d] = c) - 1

\* \s
IsSpace(c) == c \in {" ", "\t", "\n", "\r"}

RECURSIVE StrNat(_)
StrNat(n) == IF n < 10 THEN <<Digits[n + 1]>>
             ELSE StrNat(n \div 10) \o <<Digits[(n % 10) + 1]>>

\* str(n) of an int: the canonical decimal string
str(n) == IF n < 0 THEN <<"-">> \o StrNat(0 - n) ELSE StrNat(n)

RECURSIVE LStrip(_)
LStrip(s) == IF s # <<>> /\ IsSpace(Head(s)) THEN LStrip(Tail(s)) ELSE s

RECURSIVE RStrip(_)
RStrip(s) == IF s # <<>> /\ IsSpace(s[Len(s)])
             THEN RStrip(SubSeq(s, 1, Len(s) - 1)) ELSE s

\* str.strip()
strip(s) == RStrip(LStrip(s))

RECURSIVE DigitsValue(_)
DigitsValue(s) == IF s = <<>> THEN 0
                  ELSE DigitsValue(SubSeq(s, 1, Len(s) - 1)) * 10 + DigitVal(s[Len(s)])

\* int(s) of a str: surrounding whitespace dropped, an optional sign, then
\* decimal digits, single underscores allowed between digits; anything else
\* raises ValueError (ok = FALSE).
int(s) ==
    LET t    == strip(s)
        sign == IF t # <<>> /\ t[1] \in {"+", "-"} THEN t[1] ELSE ""
        body == IF sign = "" THEN t ELSE Tail(t)
        wellFormed ==
            /\ body # <<>>
            /\ \A i \in 1..Len(body) : IsDigit(body[i]) \/ body[i] = "_"
            /\ IsDigit(body[1]) /\ IsDigit(body[Len(body)])
            /\ \A i \in 1..(Len(body) - 1) : ~(body[i] = "_" /\ body[i + 1] = "_")
        mag  == DigitsValue(SelectSeq(body, IsDigit))
    IN  IF wellFormed
        THEN [ok |-> TRUE, val |-> IF sign = "-" THEN 0 - mag ELSE mag]
        ELSE [ok |-> FALSE, val |-> 0]

\* s occurs in t as a contiguous substring (Python: s in t)
Contains(t, s) ==
    \E i \in 1..(Len(t) - Len(s) + 1) : SubSeq(t, i, i + Len(s) - 1) = s

(***************************************************************************)
(* SECTION 1: FrenchLinguisticRules                                        *)
(***************************************************************************)
UNITS ==
    0 :> <<"z","é","r","o">> @@
    1 :> <<"u","n">> @@
    2 :> <<"d","e","u","x">> @@
    3 :> <<"t","r","o","i","s">> @@
    4 :> <<"q","u","a","t","r","e">> @@
    5 :> <<"c","i","n","q">> @@
    6 :> <<"s","i","x">> @@
    7 :> <<"s","e","p","t">> @@
    8 :> <<"h","u","i","t">> @@
    9 :> <<"n","e","u","f">>

TEENS_SPECIAL ==
    10 :> <<"d","i","x">> @@
    11 :> <<"o","n","z","e">> @@
    12 :> <<"d","o","u","z","e">> @@
    13 :> <<"t","r","e","i","z","e">> @@
    14 :> <<"q","u","a","t","o","r","z","e">> @@
    15 :> <<"q","u","i","n","z","e">> @@
    16 :> <<"s","e","i","z","e">>

TEENS_COMPOSED ==
    17 :> <<"d","i","x","-","s","e","p","t">> @@
    18 :> <<"d","i","x","-","h","u","i","t">> @@
    19 :> <<"d","i","x","-","n","e","u","f">>

TENS_BASES ==
    2 :> <<"v","i","n","g","t">> @@
    3 :> <<"t","r","e","n","t","e">> @@
    4 :> <<"q","u","a","r","a","n","t","e">> @@
    5 :> <<"c","i","n","q","u","a","n","t","e">> @@
    6 :> <<"s","o","i","x","a","n","t","e">>

HUNDREDS_PREFIXES ==
    1 :> <<>> @@
    2 :> <<"d","e","u","x">> @@
    3 :> <<"t","r","o","i","s">> @@
    4 :> <<"q","u","a","t","r","e">> @@
    5 :> <<"c","i","n","q">> @@
    6 :> <<"s","i","x">> @@
    7 :> <<"s","e","p","t">> @@
    8 :> <<"h","u","i","t">> @@
    9 :> <<"n","e","u","f">>

\* {**rules.TEENS_SPECIAL, **rules.TEENS_COMPOSED}
teens_map == TEENS_SPECIAL @@ TEENS_COMPOSED

\* dict.get(key, default)
Get(map, key, default) == IF key \in DOMAIN map THEN map[key] ELSE default

\* variant of apply_et_rule: the exception list read as the rule's domain
apply_et_rule_inverted(number) == number % 10 = 1 /\ number \in {11, 81, 91}

apply_et_rule(number) == number % 10 = 1 /\ number \notin {11, 81, 91}

\* variant of apply_s_to_cents: the lower limit 200 dropped
apply_s_to_cents_any_multiple(number) == number % 100 = 0

apply_s_to_cents(number) == number >= 200 /\ number % 100 = 0

apply_s_to_vingts(number) == number = 80

(***************************************************************************)
(* SECTION 2: FST utilities                                                *)
(***************************************************************************)
\* the literal pieces of the f-strings
ET_CONNECTOR == <<" ","e","t"," ">>
HYPHEN == <<"-">>
SOIXANTE_ET_ONZE == <<"s","o","i","x","a","n","t","e"," ","e","t"," ","o","n","z","e">>
SOIXANTE_DIX == <<"s","o","i","x","a","n","t","e","-","d","i","x">>
SOIXANTE_HYPHEN == <<"s","o","i","x","a","n","t","e","-">>
QUATRE_VINGTS == <<"q","u","a","t","r","e","-","v","i","n","g","t","s">>
QUATRE_VINGT_HYPHEN == <<"q","u","a","t","r","e","-","v","i","n","g","t","-">>
CENT == <<"c","e","n","t">>
MILLE == <<"m","i","l","l","e">>

\* the text of the exception pynini raises when no path accepts the input
FST_OP_ERROR == <<"O","p","e","r","a","t","i","o","n"," ","f","a","i","l","e","d">>

\* f"Error: {e}, for input:'{text}'"
ErrorMessage(text) ==
    <<"E","r","r","o","r",":"," ">> \o FST_OP_ERROR
        \o <<","," ","f","o","r"," ","i","n","p","u","t",":","'">> \o text \o <<"'">>

\* The outputs the transducer relates to text.
Outputs(text, f) == {p[2] : p \in {q \in f : q[1] = text}}

\* apply_fst: the output of the shortest accepting path; .string() raises on
\* the empty composition and the except clause returns the error text.
apply_fst(text, f) ==
    LET outs == Outputs(text, f)
    IN  IF outs = {} THEN ErrorMessage(text)
        ELSE CHOOSE o \in outs : TRUE

\* I_O_FST: the elementary transducer input_str -> output_str
I_O_FST(input_str, output_str) == <<input_str, output_str>>

(***************************************************************************)
(* SECTION 3: the range builders.  Each Python dict is built key by key;   *)
(* the transducer of a builder is the union of the I_O_FST of its items.   *)
(***************************************************************************)
build_units_fst == {I_O_FST(str(num), UNITS[num]) : num \in DOMAIN UNITS}

build_teens_fst ==
    {I_O_FST(str(num), TEENS_SPECIAL[num]) : num \in DOMAIN TEENS_SPECIAL}
        \cup {I_O_FST(str(num), TEENS_COMPOSED[num]) : num \in DOMAIN TEENS_COMPOSED}

compound_word(ten, unit) ==
    LET number    == ten * 10 + unit
        connector == IF apply_et_rule(number) THEN ET_CONNECTOR ELSE HYPHEN
    IN  TENS_BASES[ten] \o connector \o UNITS[unit]

\* variant of build_compound_20_69_dynamic: range(2, 6)
build_compound_20_69_short ==
    UNION {{I_O_FST(str(ten * 10), TENS_BASES[ten])}
               \cup {I_O_FST(str(ten * 10 + unit), compound_word(ten, unit)) : unit \in 1..9}
           : ten \in 2..5}

build_compound_20_69_dynamic ==
    UNION {{I_O_FST(str(ten * 10), TENS_BASES[ten])}
               \cup {I_O_FST(str(ten * 10 + unit), compound_word(ten, unit)) : unit \in 1..9}
           : ten \in 2..6}

seventy_word(offset) ==
    IF offset = 11 THEN SOIXANTE_ET_ONZE
    ELSE IF offset = 10 THEN SOIXANTE_DIX
    ELSE SOIXANTE_HYPHEN \o Get(teens_map, offset, <<>>)

\* variant of build_70_79_dynamic: range(9, 20)
build_70_79_from_69 ==
    {I_O_FST(str(60 + offset), seventy_word(offset)) : offset \in 9..19}

build_70_79_dynamic ==
    {I_O_FST(str(60 + offset), seventy_word(offset)) : offset \in 10..19}

\* variant of build_80_99_dynamic: 80 spelled without its 's'
build_80_99_plain ==
    {I_O_FST(str(80 + unit), QUATRE_VINGT_HYPHEN \o UNITS[unit]) : unit \in 1..9}
        \cup {I_O_FST(str(80 + offset), QUATRE_VINGT_HYPHEN \o Get(teens_map, offset, <<>>))
              : offset \in 10..19}
        \cup {I_O_FST(str(80), SubSeq(QUATRE_VINGTS, 1, Len(QUATRE_VINGTS) - 1))}

build_80_99_dynamic ==
    (IF apply_s_to_vingts(80) THEN {I_O_FST(str(80), QUATRE_VINGTS)} ELSE {})
        \cup {I_O_FST(str(80 + unit), QUATRE_VINGT_HYPHEN \o UNITS[unit]) : unit \in 1..9}
        \cup {I_O_FST(str(80 + offset), QUATRE_VINGT_HYPHEN \o Get(teens_map, offset, <<>>))
              : offset \in 10..19}

\* variant of get_written_form_1_99_dynamic: 71 composed like 72..79
get_written_form_1_99_plain_71(n) ==
    IF n < 10 THEN Get(UNITS, n, str(n))
    ELSE IF 10 <= n /\ n < 20 THEN Get(teens_map, n, str(n))
    ELSE IF 20 <= n /\ n < 70 THEN
        LET ten  == n \div 10
            unit == n % 10
        IN  IF unit = 0 THEN Get(TENS_BASES, ten, str(n))
            ELSE TENS_BASES[ten]
                     \o (IF apply_et_rule(n) THEN ET_CONNECTOR ELSE HYPHEN)
                     \o UNITS[unit]
    ELSE IF 70 <= n /\ n < 80 THEN
        LET offset == n - 60
        IN  IF offset \in DOMAIN teens_map THEN SOIXANTE_HYPHEN \o teens_map[offset]
            ELSE SOIXANTE_DIX
    ELSE IF 80 <= n /\ n < 100 THEN
        IF n = 80 THEN QUATRE_VINGTS
        ELSE LET offset == n - 80
             IN  IF offset < 10 THEN QUATRE_VINGT_HYPHEN \o UNITS[offset]
                 ELSE QUATRE_VINGT_HYPHEN \o Get(teens_map, offset, str(offset))
    ELSE str(n)

get_written_form_1_99_dynamic(n) ==
    IF n < 10 THEN Get(UNITS, n, str(n))
    ELSE IF 10 <= n /\ n < 20 THEN Get(teens_map, n, str(n))
    ELSE IF 20 <= n /\ n < 70 THEN
        LET ten  == n \div 10
            unit == n % 10
        IN  IF unit = 0 THEN Get(TENS_BASES, ten, str(n))
            ELSE TENS_BASES[ten]
                     \o (IF apply_et_rule(n) THEN ET_CONNECTOR ELSE HYPHEN)
                     \o UNITS[unit]
    ELSE IF 70 <= n /\ n < 80 THEN
        LET offset == n - 60
        IN  IF n = 71 THEN SOIXANTE_ET_ONZE
            ELSE IF offset \in DOMAIN teens_map THEN SOIXANTE_HYPHEN \o teens_map[offset]
            ELSE SOIXANTE_DIX
    ELSE IF 80 <= n /\ n < 100 THEN
        IF n = 80 THEN QUATRE_VINGTS
        ELSE LET offset == n - 80
             IN  IF offset < 10 THEN QUATRE_VINGT_HYPHEN \o UNITS[offset]
                 ELSE QUATRE_VINGT_HYPHEN \o Get(teens_map, offset, str(offset))
    ELSE str(n)

hundreds_prefix(h) == IF h = 1 THEN CENT ELSE HUNDREDS_PREFIXES[h] \o <<" ">> \o CENT

build_hundreds_dynamic ==
    UNION {{I_O_FST(str(h * 100),
                    IF apply_s_to_cents(h * 100) THEN hundreds_prefix(h) \o <<"s">>
                    ELSE hundreds_prefix(h))}
               \cup {I_O_FST(str(h * 100 + unit),
                             hundreds_prefix(h) \o <<" ">> \o get_written_form_1_99_dynamic(unit))
                     : unit \in 1..99}
           : h \in 1..9}

build_thousand_fst == {I_O_FST(<<"1","0","0","0">>, MILLE)}

(***************************************************************************)
(* SECTION 4: the complete transducer                                      *)
(***************************************************************************)
\* the seven transducers build_french_cardinal_fst unions, in its order
range_builders ==
    <<build_units_fst, build_teens_fst, build_compound_20_69_dynamic,
      build_70_79_dynamic, build_80_99_dynamic, build_hundreds_dynamic,
      build_thousand_fst>>

build_french_cardinal_fst == UNION {range_builders[i] : i \in DOMAIN range_builders}

(***************************************************************************)
(* SECTION 5: tokenize_text.  re.findall scans left to right; at each      *)
(* position the alternatives are tried in order                            *)
(*   \d+ | letters+(?:'letters+)* | [^\w\s] | \s                           *)
(* and a character no alternative matches is skipped.                      *)
(***************************************************************************)
\* the letter class of the pattern (all of it but the capital y with
\* diaeresis, which no text of the model contains)
LETTERS ==
    {"a","b","c","d","e","f","g","h","i","j","k","l","m",
     "n","o","p","q","r","s","t","u","v","w","x","y","z",
     "A","B","C","D","E","F","G","H","I","J","K","L","M",
     "N","O","P","Q","R","S","T","U","V","W","X","Y","Z",
     "à","â","ä","é","è","ê","ë","ï","î","ô","ù","û","ü","ÿ","ç",
     "À","Â","Ä","É","È","Ê","Ë","Ï","Î","Ô","Ù","Û","Ü","Ç"}

IsLetter(c) == c \in LETTERS

\* \w: the alphanumerics and the underscore
IsWordChar(c) == IsLetter(c) \/ IsDigit(c) \/ c = "_"

\* the first index >= i among stops (n + 1 if none): where a greedy run of
\* the characters outside stops, started at i, ends
FirstFrom(i, stops, n) ==
    LET later == {j \in stops : j >= i}
    IN  IF later = {} THEN n + 1
        ELSE CHOOSE j \in later : \A k \in later : j <= k

\* \d+ from i
DigitRunEnd(s, i) == FirstFrom(i, {j \in 1..Len(s) : ~IsDigit(s[j])}, Len(s))

\* letters+ from i
LetterRunEnd(s, i) == FirstFrom(i, {j \in 1..Len(s) : ~IsLetter(s[j])}, Len(s))

\* \s+ from i
SpaceRunEnd(s, i) == FirstFrom(i, {j \in 1..Len(s) : ~IsSpace(s[j])}, Len(s))

\* [^"]+ from i
NonQuoteRunEnd(s, i) == FirstFrom(i, {j \in 1..Len(s) : s[j] = "\""}, Len(s))

\* the end (exclusive) of letters+(?:'letters+)* whose letters+ ended at j
RECURSIVE WordEnd(_, _)
WordEnd(s, j) ==
    IF j + 1 <= Len(s) /\ s[j] = "'" /\ IsLetter(s[j + 1])
    THEN WordEnd(s, LetterRunEnd(s, j + 1))
    ELSE j

RECURSIVE TokensFrom(_, _)
TokensFrom(s, i) ==
    IF i > Len(s) THEN <<>>
    ELSE IF IsDigit(s[i]) THEN
        LET j == DigitRunEnd(s, i) IN <<SubSeq(s, i, j - 1)>> \o TokensFrom(s, j)
    ELSE IF IsLetter(s[i]) THEN
        LET j == WordEnd(s, LetterRunEnd(s, i))
        IN  <<SubSeq(s, i, j - 1)>> \o TokensFrom(s, j)
    ELSE IF ~IsWordChar(s[i]) /\ ~IsSpace(s[i]) THEN <<<<s[i]>>>> \o TokensFrom(s, i + 1)
    ELSE IF IsSpace(s[i]) THEN <<<<s[i]>>>> \o TokensFrom(s, i + 1)
    ELSE TokensFrom(s, i + 1)

tokenize_text(text) == TokensFrom(text, 1)

(***************************************************************************)
(* SECTION 6: classification and tag stripping                             *)
(***************************************************************************)
CARDINAL_OPEN ==
    <<"{"," ","c","a","r","d","i","n","a","l"," ","{"," ","i","n","t","e","g","e","r",":"," ","\"">>
WORD_OPEN == <<"{"," ","w","o","r","d"," ","{"," ","v","a","l","u","e",":"," ","\"">>
TAG_CLOSE == <<"\""," ","}"," ","}">>

\* str.isdigit()
isdigit(token) == token # <<>> /\ \A i \in 1..Len(token) : IsDigit(token[i])

classify_token(token, f) ==
    IF isdigit(token)
    THEN CARDINAL_OPEN \o apply_fst(token, f) \o TAG_CLOSE
    ELSE WORD_OPEN \o token \o TAG_CLOSE

\* sep.join(parts)
RECURSIVE Join(_, _)
Join(parts, sep) ==
    IF parts = <<>> THEN <<>>
    ELSE IF Len(parts) = 1 THEN parts[1]
    ELSE parts[1] \o sep \o Join(Tail(parts), sep)

classify_sentence(text, f) ==
    LET tokens == tokenize_text(text)
    IN  Join([i \in 1..Len(tokens) |-> classify_token(tokens[i], f)], <<" ">>)

\* s has lit at index i
HasAt(s, i, lit) == i + Len(lit) - 1 <= Len(s) /\ SubSeq(s, i, i + Len(lit) - 1) = lit

\* the tag pattern  open ([^"]+) " } }  matches at i: [^"]+ runs to the next
\* quote, which must open the closing literal
TagMatchesAt(s, i, open) ==
    LET b == i + Len(open)
        k == NonQuoteRunEnd(s, b)
    IN  HasAt(s, i, open) /\ k > b /\ HasAt(s, k, TAG_CLOSE)

\* re.sub(open "([^"]+)" } }, \1, s) from index i on: the text up to the
\* leftmost match is kept, the match is replaced by its group, and the scan
\* goes on after the match.
RECURSIVE SubTag(_, _, _)
SubTag(s, i, open) ==
    LET m == FirstFrom(i, {j \in 1..Len(s) : TagMatchesAt(s, j, open)}, Len(s))
    IN  IF m > Len(s) THEN SubSeq(s, i, Len(s))
        ELSE LET b == m + Len(open)
                 k == NonQuoteRunEnd(s, b)
             IN  SubSeq(s, i, m - 1) \o SubSeq(s, b, k - 1)
                     \o SubTag(s, k + Len(TAG_CLOSE), open)

\* re.sub(r'\s+', ' ', s)
RECURSIVE SubSpaces(_, _)
SubSpaces(s, i) ==
    LET m == FirstFrom(i, {j \in 1..Len(s) : IsSpace(s[j])}, Len(s))
    IN  IF m > Len(s) THEN SubSeq(s, i, Len(s))
        ELSE SubSeq(s, i, m - 1) \o <<" ">> \o SubSpaces(s, SpaceRunEnd(s, m))

IsClosingPunct(c) == c \in {".", ",", ":", ";", "!", "?"}

\* \s+([.,:;!?]) matches at i
SpacePunctMatchesAt(s, i) ==
    LET j == SpaceRunEnd(s, i)
    IN  IsSpace(s[i]) /\ j <= Len(s) /\ IsClosingPunct(s[j])

\* re.sub(r'\s+([.,:;!?])', r'\1', s)
RECURSIVE SubSpacePunct(_, _)
SubSpacePunct(s, i) ==
    LET m == FirstFrom(i, {j \in 1..Len(s) : SpacePunctMatchesAt(s, j)}, Len(s))
    IN  IF m > Len(s) THEN SubSeq(s, i, Len(s))
        ELSE LET j == SpaceRunEnd(s, m)
             IN  SubSeq(s, i, m - 1) \o <<s[j]>> \o SubSpacePunct(s, j + 1)

strip_tags(tagged_text) ==
    LET t1 == SubTag(tagged_text, 1, CARDINAL_OPEN)
        t2 == SubTag(t1, 1, WORD_OPEN)
        t3 == SubSpaces(t2, 1)
        t4 == SubSpacePunct(t3, 1)
    IN  strip(t4)

(***************************************************************************)
(* SECTION 7: FrenchNormalizer                                             *)
(***************************************************************************)
\* FrenchNormalizer.__init__
Init ==
    /\ fst = build_french_cardinal_fst
    /\ stats = [normalized |-> 0, errors |-> 0]
    /\ op = "init"
    /\ arg = <<>>
    /\ ret = <<>>
    /\ ncalls = 0

\* variant of normalize_number: the range check dropped
normalize_number_no_range_check(number_str) ==
    LET num == int(number_str)
    IN  /\ IF ~num.ok
           THEN /\ ret' = number_str
                /\ stats' = [stats EXCEPT !.errors = @ + 1]
           ELSE /\ ret' = apply_fst(str(num.val), fst)
                /\ stats' = [stats EXCEPT !.normalized = @ + 1]
        /\ op' = "normalize_number"
        /\ arg' = number_str
        /\ ncalls' = ncalls + 1
        /\ UNCHANGED fst

\* variant of normalize_number: an out-of-range numeral counted as an error
normalize_number_counting_out_of_range(number_str) ==
    LET num == int(number_str)
    IN  /\ IF num.ok /\ 0 <= num.val /\ num.val <= 1000
           THEN /\ ret' = apply_fst(str(num.val), fst)
                /\ stats' = [stats EXCEPT !.normalized = @ + 1]
           ELSE /\ ret' = number_str
                /\ stats' = [stats EXCEPT !.errors = @ + 1]
        /\ op' = "normalize_number"
        /\ arg' = number_str
        /\ ncalls' = ncalls + 1
        /\ UNCHANGED fst

\* variant of normalize_number: the path taken is removed from the transducer
normalize_number_consuming(number_str) ==
    LET num == int(number_str)
    IN  /\ IF ~num.ok
           THEN /\ ret' = number_str
                /\ stats' = [stats EXCEPT !.errors = @ + 1]
                /\ UNCHANGED fst
           ELSE IF ~(0 <= num.val /\ num.val <= 1000)
           THEN /\ ret' = number_str
                /\ UNCHANGED <<stats, fst>>
           ELSE /\ ret' = apply_fst(str(num.val), fst)
                /\ stats' = [stats EXCEPT !.normalized = @ + 1]
                /\ fst' = {p \in fst : p[1] # str(num.val)}
        /\ op' = "normalize_number"
        /\ arg' = number_str
        /\ ncalls' = ncalls + 1

\* FrenchNormalizer.normalize_number: int() raising is caught by the bare
\* except; apply_fst catches its own exceptions.
normalize_number(number_str) ==
    LET num == int(number_str)
    IN  /\ IF ~num.ok
           THEN /\ ret' = number_str
                /\ stats' = [stats EXCEPT !.errors = @ + 1]
           ELSE IF ~(0 <= num.val /\ num.val <= 1000)
           THEN /\ ret' = number_str
                /\ UNCHANGED stats
           ELSE /\ ret' = apply_fst(str(num.val), fst)
                /\ stats' = [stats EXCEPT !.normalized = @ + 1]
        /\ op' = "normalize_number"
        /\ arg' = number_str
        /\ ncalls' = ncalls + 1
        /\ UNCHANGED fst

\* FrenchNormalizer.normalize_text
normalize_text(text) ==
    /\ ret' = strip_tags(classify_sentence(text, fst))
    /\ op' = "normalize_text"
    /\ arg' = text
    /\ UNCHANGED <<fst, stats, ncalls>>

\* FrenchNormalizer.get_stats
get_stats ==
    /\ ret' = stats
    /\ op' = "get_stats"
    /\ arg' = <<>>
    /\ UNCHANGED <<fst, stats, ncalls>>

(***************************************************************************)
(* Argument sets.                                                          *)
(***************************************************************************)
\* the strings over chars of length 0..n
Strings(chars, n) == UNION {[1..k -> chars] : k \in 0..n}

\* the range normalize_number spells
RangeNumerals == {str(n) : n \in 0..1000}

\* the numerals around the upper end of the range, and three strings that
\* are no canonical numeral
CallNumberArgs ==
    {str(n) : n \in (1000 - Spread)..(1000 + Spread)}
        \cup {<<"a">>, <<"-","1">>, <<"0","0","7">>}

CallTextArgs == Strings({"7", "a", " "}, MaxCallTextLen)

NumberArgs ==
    RangeNumerals \cup {str(1001), str(2025)}
        \cup Strings({"0", "7", "a", "-", "+", " ", "_"}, MaxArgLen)

TextArgs == Strings({"0", "1", "a", " ", ",", "-", "\""}, MaxTextLen)

(***************************************************************************)
(* Spec: any sequence of calls on one normalizer.                          *)
(***************************************************************************)
Next ==
    \/ \E s \in CallNumberArgs : ncalls < MaxCalls /\ normalize_number(s)
    \/ \E t \in CallTextArgs : normalize_text(t)
    \/ get_stats

Spec == Init /\ [][Next]_vars

(***************************************************************************)
(* SpecNumber: normalize_number applied once to each argument string.      *)
(***************************************************************************)
InitNumber ==
    /\ fst = build_french_cardinal_fst
    /\ stats = [normalized |-> 0, errors |-> 0]
    /\ op = "pending"
    /\ arg \in NumberArgs
    /\ ret = <<>>
    /\ ncalls = 0

NextNumber == op = "pending" /\ normalize_number(arg)

SpecNumber == InitNumber /\ [][NextNumber]_vars

(***************************************************************************)
(* SpecText: normalize_text applied once to each text.                     *)
(***************************************************************************)
InitText ==
    /\ fst = build_french_cardinal_fst
    /\ stats = [normalized |-> 0, errors |-> 0]
    /\ op = "pending"
    /\ arg \in TextArgs
    /\ ret = <<>>
    /\ ncalls = 0

NextText == op = "pending" /\ normalize_text(arg)

SpecText == InitText /\ [][NextText]_vars

(***************************************************************************)
(* Properties.                                                             *)
(***************************************************************************)
\* the state after normalize_number(str(n)) for an n of the range
SpelledNumeral == op = "normalize_number" /\ arg \in RangeNumerals

\* the integer a numeral of the range denotes
NumeralValue == int(arg).val

EndsWith(t, s) == Len(s) <= Len(t) /\ SubSeq(t, Len(t) - Len(s) + 1, Len(t)) = s

ERROR_PREFIX == <<"E","r","r","o","r",":">>

\* C1 - Totality over the range: for every n in 0..1000,
\* normalize_number(str(n)) returns a non-empty string that differs from
\* str(n) and is no error text.
C1_Totality ==
    SpelledNumeral =>
        /\ ret # <<>>
        /\ ret # arg
        /\ ~Contains(ret, ERROR_PREFIX)

C1_Witness == op = "normalize_number" /\ arg = str(1000) /\ ret = MILLE

\* C2 - Range pass-through: an argument that does not parse as an integer,
\* or parses to one outside 0..1000, is returned unchanged.
C2_PassThrough ==
    (op = "normalize_number" /\ (~int(arg).ok \/ int(arg).val \notin 0..1000))
        => ret = arg

C2_Witness == op = "normalize_number" /\ arg = str(1001) /\ ret = str(1001)

\* what normalize_number returns for s on the constructed transducer
NumberValue(s) ==
    LET num == int(s)
    IN  IF num.ok /\ num.val \in 0..1000
        THEN apply_fst(str(num.val), build_french_cardinal_fst)
        ELSE s

\* the text whose digit runs are replaced by what normalize_number returns
TokenwiseNumberText(text) ==
    LET tokens == tokenize_text(text)
        tag(t) == IF isdigit(t) THEN CARDINAL_OPEN \o NumberValue(t) \o TAG_CLOSE
                  ELSE WORD_OPEN \o t \o TAG_CLOSE
    IN  strip_tags(Join([i \in 1..Len(tokens) |-> tag(tokens[i])], <<" ">>))

\* C3 - normalize_text replaces each digit run t by what normalize_number(t)
\* returns (the spelled form in range, leading zeros included; t itself out
\* of range), and never by an error message.
C3_DigitRunsAsNormalizeNumber ==
    op = "normalize_text" =>
        /\ ret = TokenwiseNumberText(arg)
        /\ ~Contains(ret, ERROR_PREFIX)

HasDigit(text) == \E i \in 1..Len(text) : IsDigit(text[i])

\* no leading or trailing whitespace, no run of two whitespace characters,
\* no whitespace directly before . , : ; ! ?
TidySpacing(text) ==
    /\ strip(text) = text
    /\ \A i \in 1..(Len(text) - 1) :
           IsSpace(text[i]) => ~IsSpace(text[i + 1]) /\ ~IsClosingPunct(text[i + 1])

\* C4 - a text without digits and with tidy spacing is returned exactly,
\* hyphens, quotes and punctuation glued to words included.
C4_NonNumericUnchanged ==
    (op = "normalize_text" /\ ~HasDigit(arg) /\ TidySpacing(arg)) => ret = arg

ET_FORMS == {21, 31, 41, 51, 61, 71}

\* the form the claim gives n mod 100 when it takes "et"
EtForm(m) == IF m = 71 THEN SOIXANTE_ET_ONZE
             ELSE TENS_BASES[m \div 10] \o ET_CONNECTOR \o UNITS[1]

\* C5 - Et-rule exactness: for n in 0..1000 the spelled form contains " et "
\* iff n mod 100 is one of 21, 31, 41, 51, 61, 71, and then the form of
\* n mod 100 is tens-base + " et " + "un" ("soixante et onze" for 71); every
\* other compound of 20..69 joins tens-base and unit with "-"; 11, 81 and 91
\* contain no "et".
C5_EtRule ==
    SpelledNumeral =>
        LET n == NumeralValue
            m == n % 100
        IN  /\ Contains(ret, ET_CONNECTOR) <=> m \in ET_FORMS
            /\ m \in ET_FORMS => EndsWith(ret, EtForm(m))
            /\ n \in ET_FORMS => ret = EtForm(n)
            /\ (n \in 20..69 /\ n % 10 \notin {0, 1})
                   => ret = TENS_BASES[n \div 10] \o HYPHEN \o UNITS[n % 10]
            /\ n \in {11, 81, 91} => ~Contains(ret, <<"e","t">>)

C5_Witness ==
    /\ op = "normalize_number" /\ arg = str(121)
    /\ ret = CENT \o <<" ">> \o TENS_BASES[2] \o ET_CONNECTOR \o UNITS[1]

CENTS == <<"c","e","n","t","s">>

\* C6 - Cent agreement: for n in 100..999 the spelled form contains "cents"
\* iff n >= 200 and n mod 100 = 0; 100 is "cent", 100h is the prefix of h +
\* " cents" for h in 2..9, and an n with a non-zero offset has "cent"
\* without 's'.
C6_CentAgreement ==
    (SpelledNumeral /\ NumeralValue \in 100..999) =>
        LET n == NumeralValue
            h == n \div 100
        IN  /\ Contains(ret, CENTS) <=> (n >= 200 /\ n % 100 = 0)
            /\ n = 100 => ret = CENT
            /\ (n % 100 = 0 /\ h \in 2..9)
                   => ret = HUNDREDS_PREFIXES[h] \o <<" ">> \o CENTS
            /\ n % 100 # 0
                   => /\ ~Contains(ret, CENTS)
                      /\ IF h = 1 THEN SubSeq(ret, 1, 5) = CENT \o <<" ">>
                         ELSE SubSeq(ret, 1, Len(HUNDREDS_PREFIXES[h]) + 6)
                                  = HUNDREDS_PREFIXES[h] \o <<" ">> \o CENT \o <<" ">>

C6_Witness ==
    /\ op = "normalize_number" /\ arg = str(201)
    /\ ret = HUNDREDS_PREFIXES[2] \o <<" ">> \o CENT \o <<" ">> \o UNITS[1]

VINGTS == <<"v","i","n","g","t","s">>

\* C7 - Vigesimal exactness: 80 is "quatre-vingts"; n in 81..89 is
\* "quatre-vingt-" + the unit name of n-80, n in 90..99 is "quatre-vingt-" +
\* the teen name of n-80; no 's' on "vingt" in 81..99 and no "et" in 80..99.
C7_Vigesimal ==
    (SpelledNumeral /\ NumeralValue \in 80..99) =>
        LET n == NumeralValue
        IN  /\ n = 80 => ret = QUATRE_VINGTS
            /\ n \in 81..89 => ret = QUATRE_VINGT_HYPHEN \o UNITS[n - 80]
            /\ n \in 90..99 => ret = QUATRE_VINGT_HYPHEN \o teens_map[n - 80]
            /\ n # 80 => ~Contains(ret, VINGTS)
            /\ ~Contains(ret, <<"e","t">>)

C7_Witness ==
    /\ op = "normalize_number" /\ arg = str(99)
    /\ ret = QUATRE_VINGT_HYPHEN \o TEENS_COMPOSED[19]

\* the numeral strings of a set of entries
Numerals(entries) == {p[1] : p \in entries}

RECURSIVE SumCard(_, _)
SumCard(seq, i) == IF i > Len(seq) THEN 0 ELSE Cardinality(seq[i]) + SumCard(seq, i + 1)

\* C8 - Coverage and uniqueness: the entries of the seven range builders
\* number 1001, their numeral strings are pairwise distinct within and
\* across the ranges, and are exactly the canonical strings of 0..1000; the
\* transducer the normalizer holds is their union.
C8_Coverage ==
    /\ SumCard(range_builders, 1) = 1001
    /\ \A i \in DOMAIN range_builders :
           Cardinality(Numerals(range_builders[i])) = Cardinality(range_builders[i])
    /\ \A i, j \in DOMAIN range_builders :
           i < j => Numerals(range_builders[i]) \cap Numerals(range_builders[j]) = {}
    /\ Cardinality(fst) = 1001
    /\ Cardinality(Numerals(fst)) = 1001
    /\ Numerals(fst) = RangeNumerals

C8_Witness ==
    /\ op = "normalize_number" /\ arg = str(1000) /\ ret = MILLE
    /\ I_O_FST(str(0), UNITS[0]) \in fst
    /\ I_O_FST(str(69), TENS_BASES[6] \o HYPHEN \o UNITS[9]) \in fst
    /\ I_O_FST(str(70), SOIXANTE_DIX) \in fst

\* C9 as stated - every normalize_number call increments one of the two
\* counters, so normalized + errors is the number of calls made.
C9_EveryCallCounted == stats.normalized + stats.errors = ncalls

\* C9 as amended - a normalize_number call increments normalized when its
\* argument parses to an integer of 0..1000, errors when it does not parse,
\* and neither when it parses to an integer outside the range; no other
\* call changes a counter.
C9_Accounting ==
    [][LET num == int(arg')
       IN  IF op' = "normalize_number" /\ ncalls' = ncalls + 1
           THEN /\ (num.ok /\ num.val \in 0..1000)
                       => stats' = [stats EXCEPT !.normalized = @ + 1]
                /\ ~num.ok => stats' = [stats EXCEPT !.errors = @ + 1]
                /\ (num.ok /\ num.val \notin 0..1000) => stats' = stats
           ELSE stats' = stats /\ ncalls' = ncalls]_vars

C9_Witness ==
    /\ op = "normalize_number" /\ arg = str(1001) /\ ret = str(1001)
    /\ ncalls = 3 /\ stats = [normalized |-> 1, errors |-> 1]

\* C10 - Read-only composite: no sequence of calls changes the transducer
\* built at construction, and what normalize_number and normalize_text
\* return is a function of the argument alone.
C10_ReadOnlyComposite ==
    /\ fst = build_french_cardinal_fst
    /\ op = "normalize_number" => ret = NumberValue(arg)
    /\ op = "normalize_text"
           => ret = strip_tags(classify_sentence(arg, build_french_cardinal_fst))

C10_Witness ==
    /\ op = "normalize_number" /\ arg = str(1000) /\ ret = MILLE
    /\ ncalls = 3 /\ stats.normalized = 3

\* the entries of the five builders that cover 1..99 (and 0)
BelowHundredEntries ==
    build_units_fst \cup build_teens_fst \cup build_compound_20_69_dynamic
        \cup build_70_79_dynamic \cup build_80_99_dynamic

\* the prefix the claim gives the hundred h
ClaimedPrefix(h) ==
    IF h = 1 THEN <<"c","e","n","t">>
    ELSE HUNDREDS_PREFIXES[h] \o <<" ","c","e","n","t">>

\* C11 - Hundreds composition agrees with the standalone spelling: for every
\* o in 1..99, get_written_form_1_99_dynamic(o) is the one form the builders
\* of units, teens, 20-69, 70-79 and 80-99 assign to o (and what
\* normalize_number returns for it), and for h in 1..9 the spelled form of
\* 100h + o is prefix(h) + " " + that form.
C11_HundredsComposition ==
    SpelledNumeral =>
        LET n == NumeralValue
            h == n \div 100
            o == n % 100
        IN  /\ n \in 1..99
                   => /\ Outputs(arg, BelowHundredEntries)
                             = {get_written_form_1_99_dynamic(n)}
                      /\ ret = get_written_form_1_99_dynamic(n)
            /\ (h \in 1..9 /\ o \in 1..99)
                   => /\ Cardinality(Outputs(str(o), BelowHundredEntries)) = 1
                      /\ ret = ClaimedPrefix(h) \o <<" ">>
                                   \o apply_fst(str(o), BelowHundredEntries)

C11_Witness ==
    /\ op = "normalize_number" /\ arg = str(171)
    /\ ret = CENT \o <<" ">> \o SOIXANTE_ET_ONZE

====
